---- MODULE Spec2Model ----
(***************************************************************************)
(* Verification model of obsidian-liquidizer:                              *)
(*   - the variable inference of src/liquid-var-utils.ts and the analyze   *)
(*     method of the frontmatter fast editor, over template text;          *)
(*   - the scoped reconciler diffAndUpdate of src/helpers.ts, i.e. the     *)
(*     morphdom walk driven by updateAllowed / addOrDiscardAllowed.        *)
(*   - the plugin around them (src/main.ts, src/unnamed/part_000): the     *)
(*     markdown post processor, activateView, the updateView calls and     *)
(*     metadata writes of the editor, and the export command.              *)
(* Template text is a TLA+ string and every pattern is matched character   *)
(* by character, as the regular expressions of the source do.              *)
(***************************************************************************)
EXTENDS Integers, Sequences, FiniteSets, TLC

VARIABLES
  tmpl,     \* the template text of the file
  pieces,   \* how many pieces the text was written in
  request,  \* the frontmatter and the variable names of the last analysis
  descr,    \* what the last analysis returned
  live,     \* the preview container shown to the user (a DOM tree)
  rendered, \* the rendered replacement handed to diffAndUpdate
  nextId,   \* the identity the next DOM node created gets
  calls,    \* how many times the render button was activated
  posts,    \* how many sections the host rendered and post-processed
  host,     \* the identities of the unmarked elements the host steps inserted
  last,     \* what the last step did, when it was an activation of the button
  notices,  \* how many notices were shown to the user
  returned, \* the calls of findLiquidVariableValues made so far, with what they returned
  lastIndex, \* per name, the lastIndex of the booleanRegex object the last call left behind
  token,    \* a raw text handed to parseLiquidValue
  parsed,   \* what parseLiquidValue returned for it
  run,      \* the last run of the markdown post processor
  workspace, \* the leaves of the workspace and the activateView calls in flight
  editor,   \* the frontmatter fast editor: metadata, timers, updateView calls, what is shown
  exporter  \* the invocations of the export command and what each has done

inferVars == <<tmpl, pieces, request, descr>>
reconVars == <<live, rendered, nextId, calls, posts, host, last, notices>>
utilVars == <<returned, lastIndex, token, parsed>>
pluginVars == <<run, workspace, editor, exporter>>
vars == <<tmpl, pieces, request, descr, live, rendered, nextId, calls, posts, host, last,
          notices, returned, lastIndex, token, parsed, run, workspace, editor,
          exporter>>

(***************************************************************************)
(* Text helpers (JavaScript string and RegExp primitives).                 *)
(***************************************************************************)
Digits == {"0", "1", "2", "3", "4", "5", "6", "7", "8", "9"}

Letters ==
  {"a", "b", "c", "d", "e", "f", "g", "h", "i", "j", "k", "l", "m", "n", "o", "p", "q",
   "r", "s", "t", "u", "v", "w", "x", "y", "z",
   "A", "B", "C", "D", "E", "F", "G", "H", "I", "J", "K", "L", "M", "N", "O", "P", "Q",
   "R", "S", "T", "U", "V", "W", "X", "Y", "Z"}

\* \w of a RegExp
WordChars == Digits \cup Letters \cup {"_"}

\* \s of a RegExp and the characters String.prototype.trim removes
Spaces == {" ", "\t", "\n", "\r"}

\* the characters "." does not match without the s flag
LineBreaks == {"\n", "\r"}

\* the character at 1-based position i, "" outside the text
At(s, i) == IF i >= 1 /\ i <= Len(s) THEN SubSeq(s, i, i) ELSE ""

\* the literal p stands in s at position i
StartsAt(s, i, p) ==
  /\ i >= 1
  /\ i + Len(p) - 1 <= Len(s)
  /\ SubSeq(s, i, i + Len(p) - 1) = p

\* the assertion \b between positions i-1 and i
WordBoundary(s, i) == (At(s, i - 1) \in WordChars) # (At(s, i) \in WordChars)

\* \s* (greedy): the first position from i on that holds no white space
RECURSIVE SkipSpaces(_, _)
SkipSpaces(s, i) == IF At(s, i) \in Spaces THEN SkipSpaces(s, i + 1) ELSE i

\* the least position of a set of positions, 0 for the empty set
First(S) == IF S = {} THEN 0 ELSE CHOOSE j \in S : \A k \in S : j <= k

\* the position of the first character c from i on, 0 when there is none
FindChar(s, i, c) == First({j \in i..Len(s) : At(s, j) = c})

\* \d+ (greedy): the position after the run of digits starting at i
RECURSIVE SkipDigits(_, _)
SkipDigits(s, i) == IF At(s, i) \in Digits THEN SkipDigits(s, i + 1) ELSE i

RECURSIVE TrimStart(_)
TrimStart(s) == IF Len(s) > 0 /\ At(s, 1) \in Spaces THEN TrimStart(SubSeq(s, 2, Len(s))) ELSE s

RECURSIVE TrimEnd(_)
TrimEnd(s) ==
  IF Len(s) > 0 /\ At(s, Len(s)) \in Spaces THEN TrimEnd(SubSeq(s, 1, Len(s) - 1)) ELSE s

\* String.prototype.trim
Trim(s) == TrimEnd(TrimStart(s))

(***************************************************************************)
(* Values of the inference: a JavaScript primitive is a record of its      *)
(* typeof-kind and its text; a number carries its canonical decimal text,  *)
(* so that 1 and 1.0 are the same number and 1 and '1' are not equal.      *)
(***************************************************************************)
StrVal(s) == [k |-> "string", v |-> s]
NumVal(s) == [k |-> "number", v |-> s]
BoolVal(s) == [k |-> "boolean", v |-> s]
NullVal == [k |-> "null", v |-> "null"]

RECURSIVE StripLeadingZeros(_)
StripLeadingZeros(s) ==
  IF Len(s) > 1 /\ At(s, 1) = "0" THEN StripLeadingZeros(SubSeq(s, 2, Len(s))) ELSE s

RECURSIVE StripTrailingZeros(_)
StripTrailingZeros(s) ==
  IF Len(s) > 0 /\ At(s, Len(s)) = "0" THEN StripTrailingZeros(SubSeq(s, 1, Len(s) - 1)) ELSE s

\* the value of a digit character in a radix up to 16, -1 for any other character
DigitValue(c) ==
  First({j \in 1..16 : At("0123456789abcdef", j) = c \/ At("0123456789ABCDEF", j) = c}) - 1

\* the number written by the first i characters of a text of digits
RECURSIVE ValueIn(_, _, _)
ValueIn(s, i, radix) ==
  IF i <= 0 THEN 0 ELSE ValueIn(s, i - 1, radix) * radix + DigitValue(At(s, i))

\* n zeros
RECURSIVE Zeros(_)
Zeros(n) == IF n <= 0 THEN "" ELSE "0" \o Zeros(n - 1)

\* the radix of a NonDecimalIntegerLiteral prefix (0x, 0o, 0b), 0 without one
Radix(s) ==
  IF Len(s) < 3 \/ At(s, 1) # "0" THEN 0
  ELSE IF At(s, 2) \in {"x", "X"} THEN 16
  ELSE IF At(s, 2) \in {"o", "O"} THEN 8
  ELSE IF At(s, 2) \in {"b", "B"} THEN 2
  ELSE 0

IsRadixNumeral(s) ==
  /\ Radix(s) # 0
  /\ \A i \in 3..Len(s) : DigitValue(At(s, i)) \in 0..(Radix(s) - 1)

IsInfinity(s) == s \in {"Infinity", "+Infinity", "-Infinity"}

\* digits with an optional fraction, or a fraction alone, at b: the position
\* after them, 0 for no match
MantissaEnd(s, b) ==
  LET e == SkipDigits(s, b)
  IN  IF e > b THEN (IF At(s, e) = "." THEN SkipDigits(s, e + 1) ELSE e)
      ELSE IF At(s, e) = "." /\ SkipDigits(s, e + 1) > e + 1 THEN SkipDigits(s, e + 1)
      ELSE 0

\* the position after an optional exponent part at m, 0 for a broken one
ExponentEnd(s, m) ==
  IF At(s, m) \notin {"e", "E"} THEN m
  ELSE LET d == IF At(s, m + 1) \in {"+", "-"} THEN m + 2 ELSE m + 1
       IN  IF SkipDigits(s, d) > d THEN SkipDigits(s, d) ELSE 0

\* a decimal numeral: an optional sign, digits, an optional fraction, an
\* optional exponent
IsDecimal(s) ==
  LET b == IF At(s, 1) \in {"-", "+"} THEN 2 ELSE 1
      m == MantissaEnd(s, b)
  IN  m # 0 /\ ExponentEnd(s, m) = Len(s) + 1

\* the value of a decimal numeral as its canonical decimal text (the point is
\* moved by the exponent; doubles are taken as exact)
DecimalValue(s) ==
  LET Unsigned(d) == ValueIn(SubSeq(s, d, Len(s)), Len(s) - d + 1, 10)
      Exponent(m) ==
        IF m > Len(s) THEN 0
        ELSE IF At(s, m + 1) = "-" THEN 0 - Unsigned(m + 2)
        ELSE IF At(s, m + 1) = "+" THEN Unsigned(m + 2)
        ELSE Unsigned(m + 1)
      Fraction(e, m) == IF At(s, e) = "." THEN SubSeq(s, e + 1, m - 1) ELSE ""
      Whole(ip) == IF ip = "" THEN "0" ELSE StripLeadingZeros(ip)
      Join(ip, fp) == IF fp = "" THEN ip ELSE ip \o "." \o fp
      PointIn(padded, scale) ==
        Join(Whole(SubSeq(padded, 1, Len(padded) - scale)),
             StripTrailingZeros(SubSeq(padded, Len(padded) - scale + 1, Len(padded))))
      Shifted(all, scale) ==
        IF scale <= 0 THEN Whole(all \o Zeros(0 - scale))
        ELSE PointIn(Zeros(scale + 1 - Len(all)) \o all, scale)
      Signed(mag) == IF mag = "0" THEN "0" ELSE IF At(s, 1) = "-" THEN "-" \o mag ELSE mag
      Scaled(ipRaw, fpRaw, x) == Signed(Shifted(ipRaw \o fpRaw, Len(fpRaw) - x))
      Parts(b, e, m) == Scaled(SubSeq(s, b, e - 1), Fraction(e, m), Exponent(m))
      From(b) == Parts(b, SkipDigits(s, b), MantissaEnd(s, b))
  IN  From(IF At(s, 1) \in {"-", "+"} THEN 2 ELSE 1)

\* !isNaN(Number(s)) of a trimmed text: the empty text (0), Infinity, a
\* numeral with a radix prefix, or a decimal numeral
IsNumeral(s) == s = "" \/ IsInfinity(s) \/ IsRadixNumeral(s) \/ IsDecimal(s)

\* Number(s) of such a text, as its canonical decimal text
NumberOf(s) ==
  IF s = "" THEN "0"
  ELSE IF IsInfinity(s) THEN (IF At(s, 1) = "-" THEN "-Infinity" ELSE "Infinity")
  ELSE IF IsRadixNumeral(s) THEN ToString(ValueIn(SubSeq(s, 3, Len(s)), Len(s) - 2, Radix(s)))
  ELSE DecimalValue(s)

\* parseLiquidValue of src/liquid-var-utils.ts
parseLiquidValue(valStr) ==
  LET trimmedVal == Trim(valStr)
      n == Len(trimmedVal)
  IN  IF trimmedVal = "true" THEN BoolVal("true")
      ELSE IF trimmedVal = "false" THEN BoolVal("false")
      ELSE IF trimmedVal = "nil" \/ trimmedVal = "null" THEN NullVal
      ELSE IF \/ StartsAt(trimmedVal, 1, "'") /\ At(trimmedVal, n) = "'"
              \/ StartsAt(trimmedVal, 1, "\"") /\ At(trimmedVal, n) = "\""
           THEN StrVal(IF n >= 3 THEN SubSeq(trimmedVal, 2, n - 1) ELSE "")
      ELSE IF IsNumeral(trimmedVal) /\ trimmedVal # "" THEN NumVal(NumberOf(trimmedVal))
      ELSE StrVal(trimmedVal)

\* a Set that takes two values of equal text for the same value
SetAdd_ByText(set, x) == IF \E i \in 1..Len(set) : set[i].v = x.v THEN set ELSE Append(set, x)

\* Set.prototype.add on a Set kept as the sequence of its insertion order
SetAdd(set, x) == IF \E i \in 1..Len(set) : set[i] = x THEN set ELSE Append(set, x)

RECURSIVE SetAddAll(_, _)
SetAddAll(set, xs) == IF xs = <<>> THEN set ELSE SetAddAll(SetAdd(set, Head(xs)), Tail(xs))

(***************************************************************************)
(* The patterns of findLiquidVariableValues.  A variable name is spliced   *)
(* into each pattern unescaped, so it is read as pattern source: "."       *)
(* matches any character but a line break, and an unclosed "(" makes the   *)
(* RegExp constructor raise a SyntaxError.                                 *)
(***************************************************************************)
\* new RegExp(`...${varName}...`) raises: the name opens a group it never closes
RegExpThrows(varName) == FindChar(varName, 1, "(") # 0

\* ${varName} as pattern source matched at i: the position after it, 0 for no match
RECURSIVE NameEnd(_, _, _)
NameEnd(t, i, varName) ==
  IF varName = "" THEN i
  ELSE LET p == At(varName, 1)
           c == At(t, i)
       IN  IF c # "" /\ (IF p = "." THEN c \notin LineBreaks ELSE c = p)
           THEN NameEnd(t, i + 1, SubSeq(varName, 2, Len(varName)))
           ELSE 0

\* valuePattern at i: the position after the literal, 0 for no match.  The
\* alternatives are tried in the order of the pattern.
ValueEnd(t, i) ==
  LET c == At(t, i)
      q == FindChar(t, i + 1, c)
      b == IF c = "-" THEN i + 1 ELSE i
      e == SkipDigits(t, b)
      f == IF At(t, e) = "." /\ SkipDigits(t, e + 1) > e + 1 THEN SkipDigits(t, e + 1) ELSE e
  IN  IF c = "'" \/ c = "\"" THEN (IF q = 0 THEN 0 ELSE q + 1)
      ELSE IF e > b THEN f
      ELSE IF StartsAt(t, i, "true") THEN i + 4
      ELSE IF StartsAt(t, i, "false") THEN i + 5
      ELSE IF StartsAt(t, i, "nil") THEN i + 3
      ELSE IF StartsAt(t, i, "null") THEN i + 4
      ELSE 0

\* (?:==|!=|>=|<=|>|<|contains), in the order of the alternation
ComparisonOps == <<"==", "!=", ">=", "<=", ">", "<", "contains">>

\* the operator alternation at p followed by \s*(valuePattern): the first
\* alternative that lets the rest match gives [from, to) of the literal
RECURSIVE OperandAfterOp(_, _, _)
OperandAfterOp(t, p, k) ==
  IF k > Len(ComparisonOps) THEN <<0, 0>>
  ELSE LET op == ComparisonOps[k]
           v == SkipSpaces(t, p + Len(op))
       IN  IF StartsAt(t, p, op) /\ ValueEnd(t, v) # 0 THEN <<v, ValueEnd(t, v)>>
           ELSE OperandAfterOp(t, p, k + 1)

\* comparisonRegex at i: [from, to) of the captured literal, <<0, 0>> for no match
ComparisonAt(t, i, varName) ==
  LET e == NameEnd(t, i, varName)
  IN  IF WordBoundary(t, i) /\ e # 0 /\ WordBoundary(t, e)
      THEN OperandAfterOp(t, SkipSpaces(t, e), 1)
      ELSE <<0, 0>>

\* the positions at which comparisonRegex matches
ComparisonStarts(t, varName) ==
  {j \in 1..Len(t) : NameEnd(t, j, varName) # 0 /\ ComparisonAt(t, j, varName)[2] # 0}

\* liquidTemplate.matchAll(comparisonRegex): the captured literals, left to right
\* (each search resumes where the previous match ended; starts are the
\* positions of ComparisonStarts)
RECURSIVE ComparisonMatches(_, _, _, _)
ComparisonMatches(t, starts, i, varName) ==
  LET s == First({j \in starts : j >= i})
      m == ComparisonAt(t, s, varName)
  IN  IF s = 0 THEN <<>>
      ELSE <<SubSeq(t, m[1], m[2] - 1)>> \o ComparisonMatches(t, starts, m[2], varName)

\* the positions at which a tag can open
TagStarts(t) == {j \in 1..Len(t) : At(t, j) = "{" /\ At(t, j + 1) = "%"}

\* {%-?\s* at i: the position after it, 0 for no match
TagOpenEnd(t, i) ==
  IF StartsAt(t, i, "{%")
  THEN SkipSpaces(t, IF At(t, i + 2) = "-" THEN i + 3 ELSE i + 2)
  ELSE 0

\* \s*-?%} at i: the position after it, 0 for no match
TagCloseEnd(t, i) ==
  LET p == SkipSpaces(t, i)
      q == IF At(t, p) = "-" THEN p + 1 ELSE p
  IN  IF StartsAt(t, q, "%}") THEN q + 2 ELSE 0

\* word\s+ at p: the position after it, 0 for no match
KeywordEnd(t, p, word) ==
  IF p # 0 /\ StartsAt(t, p, word) /\ At(t, p + Len(word)) \in Spaces
  THEN SkipSpaces(t, p + Len(word))
  ELSE 0

\* ${varName}\b\s*(?:and|or|%}) at p
BooleanTail(t, p, varName) ==
  LET e == NameEnd(t, p, varName)
      q == SkipSpaces(t, e)
  IN  /\ p # 0
      /\ e # 0
      /\ WordBoundary(t, e)
      /\ (StartsAt(t, q, "and") \/ StartsAt(t, q, "or") \/ StartsAt(t, q, "%}"))

\* booleanRegex at i
BooleanAt(t, i, varName) ==
  LET o == TagOpenEnd(t, i)
  IN  \E kw \in {"if", "unless", "elsif"} :
        LET p == KeywordEnd(t, o, kw)
        IN  \/ BooleanTail(t, p, varName)
            \/ BooleanTail(t, KeywordEnd(t, p, "not"), varName)

\* the position after the match of ${varName}\b\s*(?:and|or|%}) at p, 0 for no match
BooleanTailEnd(t, p, varName) ==
  LET q == SkipSpaces(t, NameEnd(t, p, varName))
  IN  IF ~BooleanTail(t, p, varName) THEN 0
      ELSE IF StartsAt(t, q, "and") THEN q + 3
      ELSE q + 2

\* the position after the match of booleanRegex at i, 0 for no match
BooleanEndAt(t, i, varName) ==
  LET o == TagOpenEnd(t, i)
      heads == {KeywordEnd(t, o, kw) : kw \in {"if", "unless", "elsif"}}
  IN  First({BooleanTailEnd(t, p, varName) : p \in heads \cup {KeywordEnd(t, h, "not") : h \in heads}}
              \ {0})

\* the lastIndex booleanRegex.test(liquidTemplate) leaves in the object (g flag):
\* the end of the first match, 0 after a test that found none
BooleanLastIndex(t, tags, varName) ==
  LET i == First({j \in tags : BooleanAt(t, j, varName)})
  IN  IF i = 0 THEN 0 ELSE BooleanEndAt(t, i, varName) - 1

\* one booleanRegex object kept from call to call: the test starts at the
\* lastIndex the test before left in it
BooleanTest_SharedRegExp(t, tags, varName) ==
  \E i \in tags :
    /\ i > (IF varName \in DOMAIN lastIndex THEN lastIndex[varName] ELSE 0)
    /\ BooleanAt(t, i, varName)

\* booleanRegex.test(liquidTemplate) on the object made by new RegExp in this
\* iteration of the loop (lastIndex 0)
BooleanTest(t, tags, varName) == \E i \in tags : BooleanAt(t, i, varName)

\* {%-?\s*endcase\s*-?%} at i: the position after it, 0 for no match
EndcaseAt(t, i) ==
  LET o == TagOpenEnd(t, i)
  IN  IF o # 0 /\ StartsAt(t, o, "endcase") THEN TagCloseEnd(t, o + 7) ELSE 0

\* (.*?) of caseRegex (s flag): the start of the first endcase tag from i on, 0 for none
FindEndcase(t, tags, i) == First({j \in tags : j >= i /\ EndcaseAt(t, j) # 0})

\* {%-?\s*case\s+${varName}\s*-?%} at i: the position after it, 0 for no match
CaseHeadAt(t, i, varName) ==
  LET p == KeywordEnd(t, TagOpenEnd(t, i), "case")
      e == IF p = 0 THEN 0 ELSE NameEnd(t, p, varName)
  IN  IF e = 0 THEN 0 ELSE TagCloseEnd(t, e)

\* liquidTemplate.matchAll(caseRegex): the captured case blocks, left to right
\* (tags are the positions of TagStarts)
RECURSIVE CaseMatches(_, _, _, _)
CaseMatches(t, tags, i, varName) ==
  LET s == First({j \in tags :
                    /\ j >= i
                    /\ CaseHeadAt(t, j, varName) # 0
                    /\ FindEndcase(t, tags, CaseHeadAt(t, j, varName)) # 0})
      h == CaseHeadAt(t, s, varName)
      x == FindEndcase(t, tags, h)
  IN  IF s = 0 THEN <<>>
      ELSE <<SubSeq(t, h, x - 1)>> \o CaseMatches(t, tags, EndcaseAt(t, x), varName)

\* (.*?)\s*-?%} of whenRegex from i: the end of the shortest capture, 0 for none
\* ("." stops at a line break)
\* (no capture can end after the first %} from i on, where the tail matches)
WhenCaptureEnd(t, i) ==
  LET c == First({j \in i..Len(t) : At(t, j) = "%" /\ At(t, j + 1) = "}"})
  IN  First({e \in i..c :
               /\ TagCloseEnd(t, e) # 0
               /\ \A j \in i..(e - 1) : At(t, j) \notin LineBreaks})

\* caseBlock.matchAll(whenRegex): the captured condition lists, left to right
RECURSIVE WhenMatches(_, _, _)
WhenMatches(t, tags, i) ==
  LET s == First({j \in tags :
                    /\ j >= i
                    /\ KeywordEnd(t, TagOpenEnd(t, j), "when") # 0
                    /\ WhenCaptureEnd(t, KeywordEnd(t, TagOpenEnd(t, j), "when")) # 0})
      p == KeywordEnd(t, TagOpenEnd(t, s), "when")
      e == WhenCaptureEnd(t, p)
  IN  IF s = 0 THEN <<>>
      ELSE <<SubSeq(t, p, e - 1)>> \o WhenMatches(t, tags, TagCloseEnd(t, e))

\* \s+or\s+ at i: the position after it, 0 for no match
OrSeparatorEnd(t, i) ==
  LET p == SkipSpaces(t, i)
  IN  IF p > i /\ StartsAt(t, p, "or") /\ At(t, p + 2) \in Spaces
      THEN SkipSpaces(t, p + 2)
      ELSE 0

\* a when clause taken as one operand, without the split at "or"
SplitOr_Unsplit(t, from) == <<SubSeq(t, from, Len(t))>>

\* whenMatch[1].split(/\s+or\s+/): from is the start of the current part
RECURSIVE SplitOr(_, _)
SplitOr(t, from) ==
  LET s == First({j \in from..Len(t) : OrSeparatorEnd(t, j) # 0})
  IN  IF s = 0 THEN <<SubSeq(t, from, Len(t))>>
      ELSE <<SubSeq(t, from, s - 1)>> \o SplitOr(t, OrSeparatorEnd(t, s))

\* parseLiquidValue over a list of raw texts
RECURSIVE ParseAll(_)
ParseAll(raw) ==
  IF raw = <<>> THEN <<>> ELSE <<parseLiquidValue(Head(raw))>> \o ParseAll(Tail(raw))

\* the when operands of a list of case blocks, in order
RECURSIVE WhenOperands(_)
WhenOperands(whens) ==
  IF whens = <<>> THEN <<>> ELSE SplitOr(Head(whens), 1) \o WhenOperands(Tail(whens))

RECURSIVE CaseOperands(_)
CaseOperands(blocks) ==
  IF blocks = <<>> THEN <<>>
  ELSE WhenOperands(WhenMatches(Head(blocks), TagStarts(Head(blocks)), 1))
         \o CaseOperands(Tail(blocks))

\* the body of the loop over variableNames: the Set collected for one name
ValuesOf(varName, liquidTemplate) ==
  LET tags == TagStarts(liquidTemplate)
      starts == ComparisonStarts(liquidTemplate, varName)
      s1 == SetAddAll(<<>>, ParseAll(ComparisonMatches(liquidTemplate, starts, 1, varName)))
      s2 == IF BooleanTest(liquidTemplate, tags, varName)
            THEN SetAdd(SetAdd(s1, BoolVal("true")), BoolVal("false"))
            ELSE s1
  IN  SetAddAll(s2, ParseAll(CaseOperands(CaseMatches(liquidTemplate, tags, 1, varName))))

\* the loop over variableNames: results[varName] is set name after name (a
\* name that comes twice is set twice, to the same list)
RECURSIVE ResultsFor(_, _)
ResultsFor(variableNames, liquidTemplate) ==
  IF variableNames = <<>> THEN <<>>
  ELSE (Head(variableNames) :> ValuesOf(Head(variableNames), liquidTemplate))
         @@ ResultsFor(Tail(variableNames), liquidTemplate)

\* findLiquidVariableValues of src/liquid-var-utils.ts: the mapping returned, or
\* the exception raised by the RegExp constructor
findLiquidVariableValues(variableNames, liquidTemplate) ==
  IF \E i \in 1..Len(variableNames) : RegExpThrows(variableNames[i])
  THEN [threw |-> TRUE, values |-> <<>>]
  ELSE [threw |-> FALSE, values |-> ResultsFor(variableNames, liquidTemplate)]

(***************************************************************************)
(* FrontmatterFastEditor.analyze (the editor that calls                    *)
(* findLiquidVariableValues).  The metadata cache and the liquidjs          *)
(* analysis are inputs: frontmatter is NoFrontmatter or a record of the    *)
(* liquidize flag and the stored values; liquidAnalysis is NoAnalysis or   *)
(* the list of global variable names.                                      *)
(***************************************************************************)
Undefined == [k |-> "undefined", v |-> ""]
ArrayVal == [k |-> "array", v |-> "[]"]
ObjectVal == [k |-> "object", v |-> "{}"]

NoFrontmatter == [exists |-> FALSE, liquidize |-> FALSE, stored |-> <<>>]
NoAnalysis == [exists |-> FALSE, globals |-> <<>>]

\* frontmatter[key]
Stored(frontmatter, key) ==
  IF key \in DOMAIN frontmatter.stored THEN frontmatter.stored[key] ELSE Undefined

\* the chain with the literals looked at before the stored array
TypeOfVariable_LiteralsFirst(currentValue, values) ==
  IF Len(values) > 0 /\ \A i \in 1..Len(values) : values[i].k = "number" THEN "number"
  ELSE IF Len(values) > 0 /\ \A i \in 1..Len(values) : values[i].k = "boolean" THEN "boolean"
  ELSE IF currentValue.k = "array" THEN "array"
  ELSE IF currentValue.k = "null" THEN "null"
  ELSE IF currentValue.k = "object" THEN "object"
  ELSE IF currentValue.k = "number" THEN "number"
  ELSE IF currentValue.k = "boolean" THEN "boolean"
  ELSE "string"

\* the chain without the test for an empty list: every() holds of no values
TypeOfVariable_NoEmptyTest(currentValue, values) ==
  IF currentValue.k = "array" THEN "array"
  ELSE IF currentValue.k = "null" THEN "null"
  ELSE IF currentValue.k = "object" THEN "object"
  ELSE IF currentValue.k = "number" THEN "number"
  ELSE IF currentValue.k = "boolean" THEN "boolean"
  ELSE IF \A i \in 1..Len(values) : values[i].k = "number" THEN "number"
  ELSE IF \A i \in 1..Len(values) : values[i].k = "boolean" THEN "boolean"
  ELSE IF \A i \in 1..Len(values) : values[i] = NullVal THEN "null"
  ELSE IF \A i \in 1..Len(values) : values[i].k \in {"null", "object"} THEN "object"
  ELSE "string"

\* the if/else chain that decides the type of one variable
TypeOfVariable(currentValue, values) ==
  IF currentValue.k = "array" THEN "array"
  ELSE IF currentValue.k = "null" THEN "null"
  ELSE IF currentValue.k = "object" THEN "object"
  ELSE IF currentValue.k = "number" THEN "number"
  ELSE IF currentValue.k = "boolean" THEN "boolean"
  ELSE IF Len(values) = 0 THEN "string"
  ELSE IF \A i \in 1..Len(values) : values[i].k = "number" THEN "number"
  ELSE IF \A i \in 1..Len(values) : values[i].k = "boolean" THEN "boolean"
  ELSE IF \A i \in 1..Len(values) : values[i] = NullVal THEN "null"
  ELSE IF \A i \in 1..Len(values) : values[i].k \in {"null", "object"} THEN "object"
  ELSE "string"

\* the keys of an object in insertion order: the names without repetitions
RECURSIVE Keys(_, _)
Keys(names, seen) ==
  IF names = <<>> THEN <<>>
  ELSE IF Head(names) \in seen THEN Keys(Tail(names), seen)
  ELSE <<Head(names)>> \o Keys(Tail(names), seen \cup {Head(names)})

\* the FrontmatterVariable pushed for one key
Descriptor(frontmatter, variableValues, key) ==
  LET currentValue == Stored(frontmatter, key)
      values == variableValues[key]
  IN  [key |-> key,
       type |-> TypeOfVariable(currentValue, values),
       currentValue |-> currentValue,
       possibleOptions |-> values]

AnalyzeError(msg) == [status |-> "error", error |-> msg, variables |-> <<>>]

\* the body of analyze: [variables, null], [null, error], or the exception that
\* escapes; found is findLiquidVariableValues(Object.keys(variables), content),
\* which is looked at only where the code calls it
AnalyzeWith(frontmatter, liquidAnalysis, found) ==
  IF ~frontmatter.exists THEN AnalyzeError("Failed to get frontmatter.")
  ELSE IF ~frontmatter.liquidize
    THEN AnalyzeError("Liquidizer is not enabled for this file.")
  ELSE IF ~liquidAnalysis.exists THEN AnalyzeError("Failed to analyze liquid content.")
  ELSE IF Len(liquidAnalysis.globals) = 0
    THEN AnalyzeError("No liquid variables found in the content.")
  ELSE LET keys == Keys(liquidAnalysis.globals, {})
       IN  IF found.threw THEN [status |-> "threw", error |-> "", variables |-> <<>>]
           ELSE [status |-> "ok", error |-> "",
                 variables |-> [i \in 1..Len(keys) |->
                                  Descriptor(frontmatter, found.values, keys[i])]]

\* analyze
analyze(frontmatter, liquidAnalysis, content) ==
  AnalyzeWith(frontmatter, liquidAnalysis,
              findLiquidVariableValues(liquidAnalysis.globals, content))

(***************************************************************************)
(* DOM trees.  A node is a record of its identity (nid, the object         *)
(* identity of the DOM node; 0 for a node of a parsed replacement, which   *)
(* is not part of the document), its node name ("#text" for a text node),  *)
(* the classes of its class attribute, its nodeValue and its child nodes.  *)
(* Elements carry no id attribute, so morphdom matches children by         *)
(* position and node name only.                                            *)
(***************************************************************************)
Element(tag, cls, kids) == [nid |-> 0, tag |-> tag, cls |-> cls, text |-> "", kids |-> kids]
TextNode(s) == [nid |-> 0, tag |-> "#text", cls |-> {}, text |-> s, kids |-> <<>>]

\* node.nodeType === ELEMENT_NODE
IsElement(n) == n.tag # "#text"

\* the number of nodes of a tree
RECURSIVE Size(_), SizeAll(_)
SizeAll(kids) == IF kids = <<>> THEN 0 ELSE Size(Head(kids)) + SizeAll(Tail(kids))
Size(n) == 1 + SizeAll(n.kids)

\* the nodes of a tree created as new DOM objects, with identities from k on
RECURSIVE Actualize(_, _), ActualizeAll(_, _)
ActualizeAll(kids, k) ==
  IF kids = <<>> THEN <<>>
  ELSE <<Actualize(Head(kids), k)>> \o ActualizeAll(Tail(kids), k + Size(Head(kids)))
Actualize(n, k) == [n EXCEPT !.nid = k, !.kids = ActualizeAll(n.kids, k + 1)]

\* a tree without the identities of its nodes: what outerHTML serialises
RECURSIVE Content(_), ContentAll(_)
ContentAll(kids) ==
  IF kids = <<>> THEN <<>> ELSE <<Content(Head(kids))>> \o ContentAll(Tail(kids))
Content(n) == [n EXCEPT !.nid = 0, !.kids = ContentAll(n.kids)]

\* Node.prototype.isEqualNode: same name, attributes, value and equal children
isEqualNode(a, b) == Content(a) = Content(b)

\* the nodes of a tree, each with its subtree
RECURSIVE Subtrees(_)
Subtrees(n) == {n} \cup UNION {Subtrees(n.kids[i]) : i \in 1..Len(n.kids)}

\* the pairs of nodes that stand at the same position of two trees
RECURSIVE SamePlace(_, _)
SamePlace(a, b) ==
  {<<a, b>>} \cup
    UNION {SamePlace(a.kids[i], b.kids[i]) :
             i \in 1..(IF Len(a.kids) < Len(b.kids) THEN Len(a.kids) ELSE Len(b.kids))}

Liquidized == "liquidized"
PreviewSection == "markdown-preview-section"
RenderButton == "liquid-render-button"

(***************************************************************************)
(* diffAndUpdate of src/helpers.ts: morphdom(oldEl, newEl, callbacks).     *)
(* The walk of morphdom is written out with the three callbacks in place;  *)
(* it threads the next free identity and the log of what it did.           *)
(***************************************************************************)
\* the callback without its test for the mark: only the preview section passes
updateAllowed_SectionOnly(fromEl, toEl) ==
  IF isEqualNode(fromEl, toEl) THEN FALSE
  ELSE IF PreviewSection \in fromEl.cls THEN TRUE
  ELSE FALSE

\* updateAllowed: the onBeforeElUpdated callback
updateAllowed(fromEl, toEl) ==
  IF isEqualNode(fromEl, toEl) THEN FALSE
  ELSE IF PreviewSection \in fromEl.cls THEN TRUE
  ELSE IF Liquidized \in fromEl.cls THEN TRUE
  ELSE FALSE

\* addOrDiscardAllowed: behind onBeforeNodeAdded and onBeforeNodeDiscarded
addOrDiscardAllowed(el) ==
  IF ~IsElement(el) THEN TRUE
  ELSE IF Liquidized \in el.cls THEN TRUE
  ELSE FALSE

\* one entry of the log of a walk
Did(op, n) == [op |-> op, nid |-> n.nid]

\* morphdom pairs two child nodes: same node type and, for elements, same name
Compatible(f, t) == IF IsElement(f) /\ IsElement(t) THEN f.tag = t.tag
                   ELSE ~IsElement(f) /\ ~IsElement(t)

\* morphEl and morphChildren of morphdom.  morphEl asks onBeforeElUpdated and
\* stops on false; otherwise the attributes become those of toEl and the
\* children are morphed.  morphChildren walks both child lists: a compatible
\* pair is morphed in place (a text node takes the new value without any
\* callback); an incompatible live child is discarded if onBeforeNodeDiscarded
\* allows it, and stays otherwise; once the live children are used up each
\* remaining replacement child is appended if onBeforeNodeAdded allows it;
\* live children left over are discarded like incompatible ones.  A node is
\* discarded or added with its whole subtree: the callbacks see its top only.
RECURSIVE morphEl(_, _, _, _), morphChildren(_, _, _, _, _)
morphEl(fromEl, toEl, next, log) ==
  IF ~updateAllowed(fromEl, toEl) THEN [el |-> fromEl, next |-> next, log |-> log]
  ELSE LET log1 == Append(log, Did("updated", fromEl))
           log2 == IF fromEl.cls # toEl.cls THEN Append(log1, Did("attrs", fromEl)) ELSE log1
           r == morphChildren(fromEl.kids, toEl.kids, <<>>, next, log2)
       IN  [el |-> [fromEl EXCEPT !.cls = toEl.cls, !.kids = r.kids],
            next |-> r.next, log |-> r.log]

morphChildren(fs, ts, out, next, log) ==
  IF fs = <<>> /\ ts = <<>> THEN [kids |-> out, next |-> next, log |-> log]
  ELSE IF fs = <<>>
    THEN LET t == Head(ts)
         IN  IF addOrDiscardAllowed(t)
             THEN morphChildren(fs, Tail(ts), Append(out, Actualize(t, next)),
                                next + Size(t), Append(log, [op |-> "added", nid |-> next]))
             ELSE morphChildren(fs, Tail(ts), out, next, log)
  ELSE LET f == Head(fs)
       IN  IF ts # <<>> /\ Compatible(f, Head(ts))
           THEN IF IsElement(f)
                THEN LET r == morphEl(f, Head(ts), next, log)
                     IN  morphChildren(Tail(fs), Tail(ts), Append(out, r.el), r.next, r.log)
                ELSE morphChildren(Tail(fs), Tail(ts),
                                   Append(out, [f EXCEPT !.text = Head(ts).text]), next,
                                   IF f.text # Head(ts).text
                                   THEN Append(log, Did("text", f)) ELSE log)
           ELSE IF addOrDiscardAllowed(f)
                THEN morphChildren(Tail(fs), ts, out, next, Append(log, Did("discarded", f)))
                ELSE morphChildren(Tail(fs), ts, Append(out, f), next, log)

\* diffAndUpdate(oldEl, newEl): the tree that stands in the document afterwards.
\* A root of another name than the replacement's is first replaced by a new
\* element of that name that takes over its children (no callback is asked).
diffAndUpdate(oldEl, newEl, next) ==
  IF oldEl.tag # newEl.tag
  THEN morphEl([nid |-> next, tag |-> newEl.tag, cls |-> {}, text |-> "",
                kids |-> oldEl.kids],
               newEl, next + 1, <<Did("replaced", oldEl)>>)
  ELSE morphEl(oldEl, newEl, next, <<>>)

(***************************************************************************)
(* The inference as a state machine: a template is written piece by piece  *)
(* and analysed with some stored metadata and some list of variable names. *)
(***************************************************************************)
MaxPieces == 3

TemplatePieces ==
  {"{% if v %}",
   "{%- if v -%}",
   "{% if v == 'x' %}",
   "{% if v == \"y\" %}",
   "{% if v != 1 %}",
   "{% if v == '1' %}",
   "{% if obj.v == 'y' %}",
   "{% case v %}{% when 1 or 2 %}a{% when 3 %}b{% endcase %}",
   "{%- case v -%}{%- when 1 or 2 -%}a{%- when 3 -%}b{%- endcase -%}",
   "{% elsif not v or w == 'x' %}",
   "{% if vv == true %}text"}

\* the stored value of v in the frontmatter
StoredValues == {Undefined, StrVal("s"), NumVal("5"), BoolVal("true"), ArrayVal}

Frontmatters ==
  {NoFrontmatter, [exists |-> TRUE, liquidize |-> FALSE, stored |-> <<>>]}
  \cup {[exists |-> TRUE, liquidize |-> TRUE,
         stored |-> IF sv = Undefined THEN <<>> ELSE [n \in {"v"} |-> sv]] :
          sv \in StoredValues}

\* the lists of names the template analysis can hand over
GlobalLists == {<<>>, <<"v", "w">>, <<"v(", "w">>}

\* the requests an analysis is made with
Requests ==
  {r \in [frontmatter : Frontmatters, liquidAnalysis : {NoAnalysis} \cup
            {[exists |-> TRUE, globals |-> g] : g \in GlobalLists}] :
     \* one request for each way of failing, every stored value for the plain names
     \/ ~r.frontmatter.exists /\ r.liquidAnalysis = NoAnalysis
     \/ /\ r.frontmatter.exists /\ ~r.frontmatter.liquidize
        /\ r.liquidAnalysis = NoAnalysis
     \/ /\ r.frontmatter.exists /\ r.frontmatter.liquidize
        /\ r.frontmatter.stored = <<>>
     \/ /\ r.frontmatter.exists /\ r.frontmatter.liquidize
        /\ r.liquidAnalysis.exists /\ r.liquidAnalysis.globals = <<"v", "w">>}

NoRequest == [frontmatter |-> NoFrontmatter, liquidAnalysis |-> NoAnalysis]
NoResult == [status |-> "none", error |-> "", variables |-> <<>>]

\* no call of findLiquidVariableValues made yet
NoObjects == [n \in {"v", "w"} |-> 0]
NotParsed == [k |-> "none", v |-> ""]
UtilIdle == returned = {} /\ lastIndex = NoObjects /\ token = "" /\ parsed = NotParsed

\* the post processor has not run yet
NoRun == [ran |-> FALSE, liquidize |-> FALSE, buttons |-> 0,
          section |-> TextNode(""), fresh |-> TextNode("")]

\* the workspace before the layout is ready: no leaf, no call made
NoLeaves == [leaves |-> <<>>, pending |-> {}, ready |-> FALSE, commands |-> 0]

\* the editor opened with no markdown file active: the metadata of the two
\* files as stored (value 0 for the key), nothing written, nothing shown
NoEditor ==
  [cache |-> [f \in {"A.md", "B.md"} |-> 0], written |-> [f \in {"A.md", "B.md"} |-> 0],
   unsaved |-> {}, timers |-> {}, views |-> {},
   shown |-> [file |-> "", value |-> 0], latest |-> "", writes |-> 0, opens |-> 0]

\* the export command never invoked
NoExport == [calls |-> 0, runs |-> {}]

PluginIdle == run = NoRun /\ workspace = NoLeaves /\ editor = NoEditor /\ exporter = NoExport

\* no template text written and no analysis run yet
NoTemplate == [tmpl |-> "", pieces |-> 0, request |-> NoRequest, descr |-> NoResult]

InferIdle ==
  /\ tmpl = NoTemplate.tmpl
  /\ pieces = NoTemplate.pieces
  /\ request = NoTemplate.request
  /\ descr = NoTemplate.descr

\* the user writes one more piece of template text; the editor is not refreshed yet
AppendPiece ==
  /\ pieces < MaxPieces
  /\ \E p \in TemplatePieces : tmpl' = tmpl \o p
  /\ pieces' = pieces + 1
  /\ request' = NoRequest
  /\ descr' = NoResult
  /\ UNCHANGED reconVars
  /\ UNCHANGED utilVars
  /\ UNCHANGED pluginVars

\* updateView: the file is analysed (once per text: analyze keeps no state)
Analyze ==
  /\ descr = NoResult
  /\ \E la \in {r.liquidAnalysis : r \in Requests} :
       \* analyze(r.frontmatter, la, tmpl) for every request with this name list
       \E found \in {findLiquidVariableValues(la.globals, tmpl)} :
         \E r \in {q \in Requests : q.liquidAnalysis = la} :
           /\ request' = r
           /\ descr' = AnalyzeWith(r.frontmatter, la, found)
  /\ UNCHANGED <<tmpl, pieces>>
  /\ UNCHANGED reconVars
  /\ UNCHANGED utilVars
  /\ UNCHANGED pluginVars

(***************************************************************************)
(* The preview as a state machine: the host shows a container, renders     *)
(* sections into it (each passes the markdown post processor), and the     *)
(* render button hands the container and the rendered replacement to       *)
(* diffAndUpdate.                                                          *)
(***************************************************************************)
MaxKids == 2
MaxCalls == 2
MaxPosts == 1

\* the only mark the post processor leaves on the button it creates
Button == Element("button", {RenderButton}, <<TextNode("Render Liquid Template")>>)

\* the children a container can hold when the button is pressed
LiveKids ==
  {Element("p", {Liquidized}, <<TextNode("A")>>),
   Element("p", {}, <<TextNode("HOST")>>),
   Element("span", {Liquidized}, <<Element("b", {}, <<TextNode("X")>>)>>),
   Element("div", {Liquidized}, <<Element("em", {Liquidized}, <<TextNode("A")>>)>>)}

\* the children a rendered replacement can hold
RenderedKids ==
  {Element("p", {Liquidized}, <<TextNode("A")>>),
   Element("p", {Liquidized}, <<TextNode("B")>>),
   Element("p", {}, <<TextNode("CHANGED")>>),
   Element("p", {Liquidized}, <<Element("b", {}, <<TextNode("Y")>>)>>),
   Element("div", {Liquidized},
           <<Element("em", {Liquidized}, <<TextNode("B")>>), TextNode("U")>>)}

\* the lists of at most MaxKids members of S
KidLists(S) == UNION {[1..n -> S] : n \in 0..MaxKids}

\* the containers: button.parentElement.parentElement, whatever classes it has
LiveTrees ==
  {Actualize(Element("div", c, k), 1) :
     c \in {{PreviewSection}, {Liquidized}, {}}, k \in KidLists(LiveKids)}

\* what parseAndRender(container.outerHTML) can parse to
Replacements ==
  {Element("div", c, k) :
     c \in {{PreviewSection}, {}}, k \in KidLists(RenderedKids)}
  \cup {Element("section", {PreviewSection}, k) : k \in KidLists(RenderedKids)}

\* the section the host renders
HostSection == Element("p", {}, <<TextNode("N")>>)

NoCall ==
  [called |-> FALSE, before |-> TextNode(""), log |-> <<>>, again |-> FALSE,
   threw |-> FALSE, notice |-> FALSE]

\* what awaiting parseAndRender gives: the rendered replacement, or the error raised
Rendered(replacement) == [threw |-> FALSE, rendered |-> replacement]
RenderFailure == [threw |-> TRUE, rendered |-> TextNode("")]

\* the rendering passes, diffAndUpdate runs and the catch block shows no Notice
onclick_Uncaught(container, outcome, next) ==
  LET r == diffAndUpdate(container, outcome.rendered, next)
  IN  [el |-> r.el, next |-> r.next, log |-> r.log, called |-> TRUE, notice |-> FALSE]

\* button.onclick: the try block renders and calls diffAndUpdate, the catch
\* block shows a Notice
onclick(container, outcome, next) ==
  IF outcome.threw
  THEN [el |-> container, next |-> next, log |-> <<>>, called |-> FALSE, notice |-> TRUE]
  ELSE LET r == diffAndUpdate(container, outcome.rendered, next)
       IN  [el |-> r.el, next |-> r.next, log |-> r.log, called |-> TRUE,
            notice |-> FALSE]

\* element.classList.add("liquidized") on the element and all its descendants
RECURSIVE MarkAll(_), MarkEach(_)
MarkEach(kids) == IF kids = <<>> THEN <<>> ELSE <<MarkAll(Head(kids))>> \o MarkEach(Tail(kids))
MarkAll(n) ==
  IF IsElement(n) THEN [n EXCEPT !.cls = @ \cup {Liquidized}, !.kids = MarkEach(n.kids)] ELSE n

\* parentElement.getElementsByClassName("liquid-render-button").length > 0
HasButton(tree) == \E n \in Subtrees(tree) : n # tree /\ RenderButton \in n.cls

\* the elements of class liquid-render-button inside a tree
Buttons(tree) == {n \in Subtrees(tree) : n # tree /\ RenderButton \in n.cls}

\* the post processor without the look for a button that already exists
postProcess_NoButtonTest(container, section, liquidize, attached, next) ==
  LET element == Actualize(section, next)
      marked == MarkAll(element)
      button == Actualize(Button, next + Size(section))
      withButton == [marked EXCEPT !.kids = Append(@, button)]
      fresh == IF ~liquidize THEN element
               ELSE IF attached THEN withButton
               ELSE marked
  IN  [fresh |-> fresh,
       tree |-> [container EXCEPT !.kids = Append(@, fresh)],
       next |-> next + Size(fresh)]

\* the markdown post processor on a section the host renders into the
\* container: without the liquidize flag it returns at once; otherwise it marks
\* the section and its descendants and, when the section is attached and the
\* container holds no render button yet, creates the button in the section
postProcess(container, section, liquidize, attached, next) ==
  LET element == Actualize(section, next)
      marked == MarkAll(element)
      button == Actualize(Button, next + Size(section))
      withButton == [marked EXCEPT !.kids = Append(@, button)]
      fresh == IF ~liquidize THEN element
               ELSE IF attached /\ ~HasButton(container) THEN withButton
               ELSE marked
  IN  [fresh |-> fresh,
       tree |-> [container EXCEPT !.kids = Append(@, fresh)],
       next |-> next + Size(fresh)]

\* a container that shows an embedded note: the embed brings a preview section
\* of its own, which the post processor of the embedding note never marked
EmbeddedSection(text) ==
  Element("div", {PreviewSection}, <<Element("p", {Liquidized}, <<TextNode(text)>>)>>)

EmbedLiveKids ==
  {EmbeddedSection("A"),
   Element("p", {Liquidized}, <<TextNode("A")>>),
   Element("p", {}, <<TextNode("HOST")>>)}

EmbedRenderedKids ==
  {EmbeddedSection("B"),
   Element("p", {Liquidized}, <<TextNode("B")>>),
   Element("p", {}, <<TextNode("CHANGED")>>)}

EInit ==
  /\ live \in {Actualize(Element("div", c, k), 1) :
                 c \in {{PreviewSection}, {Liquidized}, {}}, k \in KidLists(EmbedLiveKids)}
  /\ rendered \in {Element("div", c, k) :
                     c \in {{PreviewSection}, {Liquidized}, {}},
                     k \in KidLists(EmbedRenderedKids)}
  /\ nextId = Size(live) + 1
  /\ calls = 0
  /\ posts = 0
  /\ host = {}
  /\ last = NoCall
  /\ notices = 0
  /\ InferIdle
  /\ UtilIdle
  /\ PluginIdle

\* the preview idle: an empty container and nothing rendered
ReconIdle ==
  /\ live = Actualize(Element("div", {PreviewSection}, <<>>), 1)
  /\ rendered = Element("div", {PreviewSection}, <<>>)
  /\ nextId = 2
  /\ calls = 0
  /\ posts = 0
  /\ host = {}
  /\ last = NoCall
  /\ notices = 0

\* the unmarked elements of a tree
Unmarked(tree) == {n \in Subtrees(tree) : IsElement(n) /\ Liquidized \notin n.cls}

RInit ==
  /\ live \in LiveTrees
  /\ rendered \in Replacements
  /\ nextId = Size(live) + 1
  /\ calls = 0
  /\ posts = 0
  /\ host = {}
  /\ last = NoCall
  /\ notices = 0
  /\ InferIdle
  /\ UtilIdle
  /\ PluginIdle

\* the host renders one of the sections, the post processor runs on it
PostProcessOf(sections, bound) ==
  /\ posts < bound
  /\ \E section \in sections, liquidize \in BOOLEAN, attached \in BOOLEAN :
       LET r == postProcess(live, section, liquidize, attached, nextId)
       IN  /\ live' = r.tree
           /\ nextId' = r.next
           /\ host' = host \cup {n.nid : n \in Unmarked(r.fresh)}
           /\ run' = [ran |-> TRUE, liquidize |-> liquidize,
                      buttons |-> Cardinality(Buttons(live)),
                      section |-> section, fresh |-> r.fresh]
  /\ posts' = posts + 1
  /\ last' = NoCall
  /\ UNCHANGED <<rendered, calls, notices, workspace, editor, exporter>>
  /\ UNCHANGED inferVars
  /\ UNCHANGED utilVars

\* the host renders a section while the button is in use
PostProcess == PostProcessOf({HostSection}, MaxPosts)

\* button.onclick after the rendering: diffAndUpdate(container, rendered)
DiffAndUpdate ==
  /\ calls < MaxCalls
  /\ LET r == onclick(live, Rendered(rendered), nextId)
     IN  /\ live' = r.el
         /\ nextId' = r.next
         /\ last' = [called |-> r.called, before |-> live, log |-> r.log,
                     again |-> last.called /\ r.el.nid = live.nid,
                     threw |-> FALSE, notice |-> r.notice]
         /\ notices' = IF r.notice THEN notices + 1 ELSE notices
  /\ calls' = calls + 1
  /\ UNCHANGED <<rendered, posts, host>>
  /\ UNCHANGED inferVars
  /\ UNCHANGED utilVars
  /\ UNCHANGED pluginVars

\* button.onclick when the rendering raises an error
RenderFails ==
  /\ calls < MaxCalls
  /\ LET r == onclick(live, RenderFailure, nextId)
     IN  /\ live' = r.el
         /\ nextId' = r.next
         /\ last' = [called |-> r.called, before |-> live, log |-> r.log,
                     again |-> FALSE, threw |-> TRUE, notice |-> r.notice]
         /\ notices' = IF r.notice THEN notices + 1 ELSE notices
  /\ calls' = calls + 1
  /\ UNCHANGED <<rendered, posts, host>>
  /\ UNCHANGED inferVars
  /\ UNCHANGED utilVars
  /\ UNCHANGED pluginVars

RNext == PostProcess \/ DiffAndUpdate \/ RenderFails

\* the button pressed, the host rendering sections before, between and after
SpecRecon == RInit /\ [][RNext]_vars

\* one press of the button on a container
FirstCall == calls = 0 /\ (DiffAndUpdate \/ RenderFails)

SpecCall == RInit /\ [][FirstCall]_vars

\* one press of the button on a container with embedded notes
SpecEmbed == EInit /\ [][FirstCall]_vars

(***************************************************************************)
(* The preview rendered section by section: the host appends each section  *)
(* to the preview container and the post processor runs on it.             *)
(***************************************************************************)
MaxSections == 3

\* the sections the markdown renderer produces
Sections ==
  {HostSection,
   Element("ul", {}, <<Element("li", {}, <<TextNode("N")>>)>>)}

\* a preview container that holds nothing, or elements of the host
SInit ==
  /\ live \in {Actualize(Element("div", {PreviewSection}, k), 1) :
                 k \in KidLists({Element("p", {}, <<TextNode("HOST")>>)})}
  /\ rendered = Element("div", {PreviewSection}, <<>>)
  /\ nextId = Size(live) + 1
  /\ calls = 0
  /\ posts = 0
  /\ host = {}
  /\ last = NoCall
  /\ notices = 0
  /\ InferIdle
  /\ UtilIdle
  /\ PluginIdle

RenderSection == PostProcessOf(Sections, MaxSections)

SpecSections == SInit /\ [][RenderSection]_vars

(***************************************************************************)
(* LiquidizerPlugin.activateView.  The workspace is the list of its leaves *)
(* by view type; getRightLeaf and setViewState belong to the host: the     *)
(* first gives a new leaf or null, the second is awaited, and the leaf     *)
(* shows the view type either at once or when the operation completes.     *)
(***************************************************************************)
MaxCommands == 3

VIEW_TYPE_FRONTMATTER_FAST_EDITOR == "liquidizer-frontmatter-fast-editor"

\* workspace.getLeavesOfType(type)
getLeavesOfType(ws, type) == {i \in 1..Len(ws.leaves) : ws.leaves[i] = type}

\* activateView up to its await: got is what getRightLeaf returns, atOnce
\* whether setViewState changes the view type before it suspends
activateView(ws, got, atOnce) ==
  IF getLeavesOfType(ws, VIEW_TYPE_FRONTMATTER_FAST_EDITOR) # {} THEN ws
  ELSE IF got = "null" THEN ws
  ELSE IF atOnce
    THEN [ws EXCEPT !.leaves = Append(@, VIEW_TYPE_FRONTMATTER_FAST_EDITOR)]
  ELSE [ws EXCEPT !.leaves = Append(@, "empty"), !.pending = @ \cup {Len(ws.leaves) + 1}]

\* the workspace restored from the saved layout: with or without a leaf of the editor
WInit ==
  /\ workspace \in {[NoLeaves EXCEPT !.leaves = l] :
                      l \in {<<>>, <<"markdown">>,
                              <<VIEW_TYPE_FRONTMATTER_FAST_EDITOR>>}}
  /\ run = NoRun
  /\ editor = NoEditor
  /\ exporter = NoExport
  /\ InferIdle
  /\ ReconIdle
  /\ UtilIdle

\* activateView is called: by the onLayoutReady callback, once, or by the
\* command 'Open Frontmatter Fast Editor'
ActivateView ==
  /\ \E by \in {"onLayoutReady", "command"}, got \in {"leaf", "null"}, atOnce \in BOOLEAN :
       /\ IF by = "command" THEN workspace.commands < MaxCommands ELSE ~workspace.ready
       /\ workspace' =
            [activateView(workspace, got, atOnce) EXCEPT
               !.ready = IF by = "command" THEN @ ELSE TRUE,
               !.commands = IF by = "command" THEN @ + 1 ELSE @]
  /\ UNCHANGED <<run, editor, exporter>>
  /\ UNCHANGED inferVars
  /\ UNCHANGED reconVars
  /\ UNCHANGED utilVars

\* an awaited setViewState completes: the leaf shows the editor
ViewStateSet ==
  /\ \E i \in workspace.pending :
       workspace' = [workspace EXCEPT !.leaves[i] = VIEW_TYPE_FRONTMATTER_FAST_EDITOR,
                                      !.pending = @ \ {i}]
  /\ UNCHANGED <<run, editor, exporter>>
  /\ UNCHANGED inferVars
  /\ UNCHANGED reconVars
  /\ UNCHANGED utilVars

SpecWorkspace == WInit /\ [][ActivateView \/ ViewStateSet]_vars

(***************************************************************************)
(* The frontmatter fast editor at work.  The metadata of a file is the     *)
(* value of one key: written is what the editor last handed to             *)
(* processFrontMatter, cache what the metadata cache returns; the host     *)
(* saves a write (vault event 'modify') and re-indexes the file later.     *)
(* Each debounce(...)() call makes a debouncer of its own, so each is a    *)
(* timer of its own.  An updateView call in flight is the file it was      *)
(* called with, the await it stands at and the frontmatter value it read;  *)
(* calls in flight that agree in all three are kept as one.                *)
(***************************************************************************)
MaxWrites == 2
MaxOpens == 2

\* updateView(file) up to the first await of analyze
updateView(ed, file) ==
  [ed EXCEPT !.views = @ \cup {[file |-> file, pc |-> "cachedRead", value |-> 0]},
             !.latest = file]

EdInit ==
  /\ editor = NoEditor
  /\ run = NoRun
  /\ workspace = NoLeaves
  /\ exporter = NoExport
  /\ InferIdle
  /\ ReconIdle
  /\ UtilIdle

\* 'active-leaf-change' to a markdown view: updateView(leaf.view.file)
ActiveLeafChange ==
  /\ editor.opens < MaxOpens
  /\ \E file \in DOMAIN editor.cache :
       editor' = [updateView(editor, file) EXCEPT !.opens = @ + 1]
  /\ UNCHANGED <<run, workspace, exporter>>
  /\ UNCHANGED inferVars
  /\ UNCHANGED reconVars
  /\ UNCHANGED utilVars

\* analyze resumes after cachedRead: it reads the frontmatter from the
\* metadata cache and awaits parseAndAnalyze
CachedRead ==
  /\ \E v \in editor.views :
       /\ v.pc = "cachedRead"
       /\ editor' = [editor EXCEPT !.views = (@ \ {v}) \cup
                       {[v EXCEPT !.pc = "parseAndAnalyze", !.value = editor.cache[v.file]]}]
  /\ UNCHANGED <<run, workspace, exporter>>
  /\ UNCHANGED inferVars
  /\ UNCHANGED reconVars
  /\ UNCHANGED utilVars

\* analyze returns and updateView rebuilds contentEl from its descriptors
ShowDescriptors ==
  /\ \E v \in editor.views :
       /\ v.pc = "parseAndAnalyze"
       /\ editor' = [editor EXCEPT !.views = @ \ {v},
                                   !.shown = [file |-> v.file, value |-> v.value]]
  /\ UNCHANGED <<run, workspace, exporter>>
  /\ UNCHANGED inferVars
  /\ UNCHANGED reconVars
  /\ UNCHANGED utilVars

\* a control of the shown file changes: updateFrontmatter or
\* pushToFrontmatterArray hands the new value to processFrontMatter and sets
\* the timer that calls updateView
UpdateFrontmatter ==
  /\ editor.shown.file # ""
  /\ editor.writes < MaxWrites
  /\ LET file == editor.shown.file
         value == editor.writes + 1
     IN  editor' = [editor EXCEPT !.written[file] = value,
                                  !.unsaved = @ \cup {file},
                                  !.timers = @ \cup {[file |-> file, write |-> value]},
                                  !.writes = value]
  /\ UNCHANGED <<run, workspace, exporter>>
  /\ UNCHANGED inferVars
  /\ UNCHANGED reconVars
  /\ UNCHANGED utilVars

\* the host saves the file: the handler of 'modify' sets a timer when the
\* active markdown view shows the file
Modify ==
  /\ \E file \in editor.unsaved, active \in BOOLEAN :
       editor' = [editor EXCEPT !.unsaved = @ \ {file},
                                !.timers = IF active
                                           THEN @ \cup {[file |-> file, write |-> 0]}
                                           ELSE @]
  /\ UNCHANGED <<run, workspace, exporter>>
  /\ UNCHANGED inferVars
  /\ UNCHANGED reconVars
  /\ UNCHANGED utilVars

\* the metadata cache has re-indexed a saved file
CacheChanged ==
  /\ \E file \in DOMAIN editor.cache :
       /\ file \notin editor.unsaved
       /\ editor.cache[file] # editor.written[file]
       /\ editor' = [editor EXCEPT !.cache[file] = editor.written[file]]
  /\ UNCHANGED <<run, workspace, exporter>>
  /\ UNCHANGED inferVars
  /\ UNCHANGED reconVars
  /\ UNCHANGED utilVars

\* a debounce timer runs out: updateView(file)
TimerFires ==
  /\ \E t \in editor.timers :
       editor' = [updateView(editor, t.file) EXCEPT !.timers = @ \ {t}]
  /\ UNCHANGED <<run, workspace, exporter>>
  /\ UNCHANGED inferVars
  /\ UNCHANGED reconVars
  /\ UNCHANGED utilVars

SpecEditor ==
  EdInit /\ [][ActiveLeafChange \/ CachedRead \/ ShowDescriptors \/ UpdateFrontmatter
                 \/ Modify \/ CacheChanged \/ TimerFires]_vars

\* timers run out, awaited promises settle and the host saves and re-indexes
SpecEditorFair ==
  /\ SpecEditor
  /\ WF_vars(CachedRead) /\ WF_vars(ShowDescriptors) /\ WF_vars(TimerFires)
  /\ WF_vars(Modify) /\ WF_vars(CacheChanged)

(***************************************************************************)
(* exportLiquidRenderedDocument.  A document is what the invocation meets: *)
(* whether a markdown view is active, whether vault.read resolves, what    *)
(* the frontmatter block parses to and how the rendering ends.  An         *)
(* invocation is its checking argument, the document, the promise it       *)
(* waits for, the notices it has shown and whether it has written the      *)
(* file.                                                                   *)
(***************************************************************************)
MaxExports == 2

\* the call itself: without an active markdown view it returns false, with
\* checking it returns true, otherwise it starts vault.read
exportLiquidRenderedDocument(checking, doc) ==
  [checking |-> checking, doc |-> doc, notices |-> <<>>, wrote |-> FALSE,
   pc |-> IF doc.active /\ ~checking THEN "read" ELSE "done"]

\* the chain without the test of the liquidize flag
settle_NoFlagTest(x) ==
  LET catch(y) == [y EXCEPT !.pc = "done",
                            !.notices = Append(@, "Error rendering document: ")]
      hint(y) == [y EXCEPT !.notices =
                    Append(@, "Add liquidize: true to the frontmatter to enable rendering.")]
  IN  IF x.pc = "read"
      THEN IF ~x.doc.read THEN catch(x)
           ELSE IF x.doc.frontmatter = "none" THEN catch(hint(x))
           ELSE IF x.doc.frontmatter \in {"invalid", "null"} THEN catch(x)
           ELSE IF x.doc.render = "parse throws" THEN catch(x)
           ELSE [x EXCEPT !.pc = "render"]
      ELSE IF x.doc.render = "rejects" THEN catch(x)
           ELSE [x EXCEPT !.pc = "done", !.wrote = TRUE,
                          !.notices = Append(@, "Exported rendered document!")]

\* the promise an invocation waits for settles: the then callbacks run as far
\* as the next promise, a rejection or an exception runs the catch callback
settle(x) ==
  LET catch(y) == [y EXCEPT !.pc = "done",
                            !.notices = Append(@, "Error rendering document: ")]
      hint(y) == [y EXCEPT !.notices =
                    Append(@, "Add liquidize: true to the frontmatter to enable rendering.")]
  IN  IF x.pc = "read"
      THEN IF ~x.doc.read THEN catch(x)
           ELSE IF x.doc.frontmatter = "none" THEN catch(hint(x))
           ELSE IF x.doc.frontmatter \in {"invalid", "null"} THEN catch(x)
           ELSE IF x.doc.frontmatter = "no flag" THEN catch(hint(x))
           ELSE IF x.doc.render = "parse throws" THEN catch(x)
           ELSE [x EXCEPT !.pc = "render"]
      ELSE IF x.doc.render = "rejects" THEN catch(x)
           ELSE [x EXCEPT !.pc = "done", !.wrote = TRUE,
                          !.notices = Append(@, "Exported rendered document!")]

XInit ==
  /\ exporter = NoExport
  /\ run = NoRun
  /\ workspace = NoLeaves
  /\ editor = NoEditor
  /\ InferIdle
  /\ ReconIdle
  /\ UtilIdle

\* the command (its check or its run) or the ribbon icon calls the function
Export ==
  /\ exporter.calls < MaxExports
  /\ \E checking \in BOOLEAN,
        doc \in [active : BOOLEAN, read : BOOLEAN,
                 frontmatter : {"none", "invalid", "null", "no flag", "liquidize"},
                 render : {"rendered", "parse throws", "rejects"}] :
       exporter' = [calls |-> exporter.calls + 1,
                    runs |-> exporter.runs \cup
                               {exportLiquidRenderedDocument(checking, doc)}]
  /\ UNCHANGED <<run, workspace, editor>>
  /\ UNCHANGED inferVars
  /\ UNCHANGED reconVars
  /\ UNCHANGED utilVars

\* vault.read or liquid.render settles for an invocation
PromiseSettles ==
  /\ \E x \in exporter.runs :
       /\ x.pc # "done"
       /\ exporter' = [exporter EXCEPT !.runs = (@ \ {x}) \cup {settle(x)}]
  /\ UNCHANGED <<run, workspace, editor>>
  /\ UNCHANGED inferVars
  /\ UNCHANGED reconVars
  /\ UNCHANGED utilVars

SpecExport == XInit /\ [][Export \/ PromiseSettles]_vars

(***************************************************************************)
(* findLiquidVariableValues called again and again, by any caller: what    *)
(* each call returned is kept, and so is the lastIndex its booleanRegex    *)
(* objects were left with.                                                 *)
(***************************************************************************)
MaxRecords == 3

CallNames == {<<"v", "w">>, <<"w">>}

CallTemplates ==
  {"{% if v %}",
   "text {% if v %}{% if w %}",
   "{% if v != 1 %}{% if v == '1' %}{% if not w and v == 1.0 %}",
   "{% case v %}{% when true or 'true' %}a{% when 'true' or 1 %}b{% endcase %}{% if v > 1 %}",
   "{%- unless w -%}{% elsif w %}"}

CInit ==
  /\ returned = {}
  /\ lastIndex = NoObjects
  /\ token = ""
  /\ parsed = NotParsed
  /\ InferIdle
  /\ ReconIdle
  /\ PluginIdle

\* one call findLiquidVariableValues(variableNames, liquidTemplate)
Call ==
  /\ Cardinality(returned) < MaxRecords
  /\ \E variableNames \in CallNames, liquidTemplate \in CallTemplates :
       \E out \in {findLiquidVariableValues(variableNames, liquidTemplate)} :
       LET same == {r \in returned : /\ r.variableNames = variableNames
                                      /\ r.liquidTemplate = liquidTemplate
                                      /\ r.out = out}
           tags == TagStarts(liquidTemplate)
       IN  /\ returned' =
                IF same # {}
                THEN (returned \ same) \cup {[r EXCEPT !.again = TRUE] : r \in same}
                ELSE returned \cup {[variableNames |-> variableNames,
                                     liquidTemplate |-> liquidTemplate,
                                     out |-> out, again |-> FALSE]}
           /\ lastIndex' =
                [n \in DOMAIN lastIndex |->
                   IF \E i \in 1..Len(variableNames) : variableNames[i] = n
                   THEN BooleanLastIndex(liquidTemplate, tags, n)
                   ELSE lastIndex[n]]
  /\ UNCHANGED <<token, parsed>>
  /\ UNCHANGED inferVars
  /\ UNCHANGED reconVars
  /\ UNCHANGED pluginVars

SpecCalls == CInit /\ [][Call]_vars

(***************************************************************************)
(* parseLiquidValue on its own: a raw text, as a detector cuts it out of   *)
(* the template, is parsed.                                                *)
(***************************************************************************)
\* the texts between the white space: keywords, quoted texts, numerals as
\* Number() reads them, and bare words
TokenCores ==
  {"true", "false", "nil", "null", "True", "nulls",
   "'x'", "\"y\"", "'1'", "'true'", "''", "'", "\"", "'a\"", "'a b'",
   "1", "-2", "1.50", "01", "1.0", ".5", "5.", "+5", "1e3", "1E-2",
   "0x10", "0X1f", "0b11", "0o17", "Infinity", "-Infinity",
   "abc", "my_string", "1a", "0x", "--1", "1e", "x y", ""}

\* the white space a capture can carry around the text
TokenPadding == {"", " ", "\t ", "\n"}

Tokens == {l \o c \o r : l \in TokenPadding, c \in TokenCores, r \in TokenPadding}

PInit ==
  /\ token \in Tokens
  /\ parsed = NotParsed
  /\ returned = {}
  /\ lastIndex = NoObjects
  /\ InferIdle
  /\ ReconIdle
  /\ PluginIdle

\* parseLiquidValue(token)
Parse ==
  /\ parsed = NotParsed
  /\ parsed' = parseLiquidValue(token)
  /\ UNCHANGED <<token, returned, lastIndex>>
  /\ UNCHANGED inferVars
  /\ UNCHANGED reconVars
  /\ UNCHANGED pluginVars

SpecParse == PInit /\ [][Parse]_vars

\* the editor opened on an empty template, the preview idle with an empty
\* container and nothing rendered
IInit ==
  /\ tmpl = NoTemplate.tmpl
  /\ pieces = NoTemplate.pieces
  /\ request = NoTemplate.request
  /\ descr = NoTemplate.descr
  /\ ReconIdle
  /\ UtilIdle
  /\ PluginIdle

INext == AppendPiece \/ Analyze

SpecInfer == IInit /\ [][INext]_vars

(***************************************************************************)
(* Properties of the reconciler.                                           *)
(***************************************************************************)
\* the operations of a log that change the document
Mutations(log) == {i \in 1..Len(log) : log[i].op # "updated"}

\* the elements the walk passed to morphAttrs and morphChildren
UpdatedIds(log) == {log[i].nid : i \in {j \in 1..Len(log) : log[j].op = "updated"}}

\* the node of identity nid in a tree, as the set holding it (empty when gone)
NodeOf(tree, nid) == {n \in Subtrees(tree) : n.nid = nid}

\* every element of a tree carries the mark
AllMarked(tree) == \A n \in Subtrees(tree) : IsElement(n) => Liquidized \in n.cls

\* C1 (containment): after a call of diffAndUpdate, every element of the live
\* tree that is unmarked, is not the root and is unequal to the replacement
\* element at its position still stands in the tree with its subtree unchanged.
C1_Containment ==
  last.called =>
    \A pr \in SamePlace(last.before, rendered) :
      ( /\ IsElement(pr[1]) /\ IsElement(pr[2])
        /\ Liquidized \notin pr[1].cls
        /\ pr[1].nid # last.before.nid
        /\ ~isEqualNode(pr[1], pr[2]) )
      => pr[1] \in Subtrees(live)

\* C2 (host elements survive): whatever calls and host steps came before, a
\* call of diffAndUpdate leaves every unmarked element a host step inserted in
\* the tree, unchanged.
C2_HostElementsKept ==
  last.called =>
    \A n \in Unmarked(last.before) : n.nid \in host => n \in Subtrees(live)

\* the scenario of C3 at child positions i (marked) and j (unmarked sibling)
C3_Scenario(i, j) ==
  /\ last.called
  /\ PreviewSection \in last.before.cls
  /\ i # j
  /\ i <= Len(rendered.kids) /\ j <= Len(rendered.kids)
  /\ IsElement(last.before.kids[i]) /\ Liquidized \in last.before.kids[i].cls
  /\ IsElement(last.before.kids[j]) /\ Liquidized \notin last.before.kids[j].cls
  /\ ~isEqualNode(last.before.kids[i], rendered.kids[i])
  /\ ~isEqualNode(last.before.kids[j], rendered.kids[j])

\* the outcome C3 states for positions i and j
C3_Outcome(i, j) ==
  /\ \E n \in NodeOf(live, last.before.kids[i].nid) : isEqualNode(n, rendered.kids[i])
  /\ last.before.kids[j] \in Subtrees(live)

C3_Paired(i) ==
  /\ last.before.tag = rendered.tag
  /\ \A k \in 1..i : Compatible(last.before.kids[k], rendered.kids[k])
  /\ \A k \in 1..Len(last.before.kids[i].kids) : AllMarked(last.before.kids[i].kids[k])
  /\ \A k \in 1..Len(rendered.kids[i].kids) : AllMarked(rendered.kids[i].kids[k])

C4_Idempotent == last.again => Mutations(last.log) = {}

\* C5 (the root is always eligible): a container that is unequal to the
\* replacement is updated by the call, whatever classes it carries (stated for
\* a replacement of the same node name, where the container itself is the
\* node the walk starts from).
C5_RootEligible ==
  (last.called /\ last.before.tag = rendered.tag /\ ~isEqualNode(last.before, rendered))
    => last.before.nid \in UpdatedIds(last.log)

(***************************************************************************)
(* Properties of the inference.                                            *)
(***************************************************************************)
\* the descriptors the last analysis produced for a name
DescriptorsOf(name) ==
  IF descr.status = "ok"
  THEN {descr.variables[i] : i \in {j \in 1..Len(descr.variables) : descr.variables[j].key = name}}
  ELSE {}

\* the characters an identifier of the template language continues with
IdentifierChars == WordChars \cup {".", "-"}

\* the name stands in the text as a whole word
OccursAsWord(t, name) ==
  \E j \in 1..Len(t) :
    /\ StartsAt(t, j, name)
    /\ At(t, j - 1) \notin WordChars
    /\ At(t, j + Len(name)) \notin WordChars

HasPlainIf(t, name) ==
  \E j \in TagStarts(t) :
    LET p == KeywordEnd(t, TagOpenEnd(t, j), "if")
    IN  p # 0 /\ StartsAt(t, p, name) /\ TagCloseEnd(t, p + Len(name)) # 0

\* C7: when the template holds an if tag whose whole condition is v, the
\* descriptor of v has kind boolean and exactly the possible values true and
\* false, whatever else the template holds (stated for a variable without a
\* stored value, where no kind is seeded from the metadata).
C7_BooleanContext ==
  \A d \in DescriptorsOf("v") :
    (HasPlainIf(tmpl, "v") /\ d.currentValue = Undefined)
      => /\ d.type = "boolean"
         /\ Len(d.possibleOptions) = 2
         /\ {d.possibleOptions[i] : i \in 1..2} = {BoolVal("true"), BoolVal("false")}

\* the string literal the name is compared with by == at position j, as a set
EqualityLiteralAt(t, j, name) ==
  LET p == SkipSpaces(t, j + Len(name))
      q == SkipSpaces(t, p + 2)
      e == FindChar(t, q + 1, At(t, q))
  IN  IF /\ StartsAt(t, j, name)
         /\ At(t, j - 1) \notin IdentifierChars
         /\ At(t, j + Len(name)) \notin IdentifierChars
         /\ StartsAt(t, p, "==")
         /\ At(t, q) \in {"'", "\""}
         /\ e # 0
      THEN {SubSeq(t, q + 1, e - 1)}
      ELSE {}

\* the string literals the name is compared with by ==, from position i on, in
\* the order of the text
RECURSIVE EqualityLiterals(_, _, _)
EqualityLiterals(t, i, name) ==
  LET j == First({k \in i..Len(t) : EqualityLiteralAt(t, k, name) # {}})
  IN  IF j = 0 THEN <<>>
      ELSE <<StrVal(CHOOSE s \in EqualityLiteralAt(t, j, name) : TRUE)>>
             \o EqualityLiterals(t, j + 1, name)

\* the members of a list that belong to a set, in the order of the list
RECURSIVE Restrict(_, _)
Restrict(list, S) ==
  IF list = <<>> THEN <<>>
  ELSE IF Head(list) \in S THEN <<Head(list)>> \o Restrict(Tail(list), S)
  ELSE Restrict(Tail(list), S)

\* C8: the string literals v is compared with by equality stand in the
\* possible values of v once each, in the order of their first occurrence.
C8_FirstOccurrenceOrder ==
  \A d \in DescriptorsOf("v") :
    LET expected == SetAddAll(<<>>, EqualityLiterals(tmpl, 1, "v"))
    IN  Restrict(d.possibleOptions, {expected[i] : i \in 1..Len(expected)}) = expected

\* the case blocks on v with the clauses when 1 or 2 and when 3
CaseBlocks ==
  {"{% case v %}{% when 1 or 2 %}a{% when 3 %}b{% endcase %}",
   "{%- case v -%}{%- when 1 or 2 -%}a{%- when 3 -%}b{%- endcase -%}"}

HasCaseBlock(t) == \E b \in CaseBlocks : \E j \in 1..Len(t) : StartsAt(t, j, b)

\* every whole-word occurrence of the name lies in one of these case blocks
OnlyInCaseBlocks(t, name) ==
  \A j \in 1..Len(t) :
    (StartsAt(t, j, name) /\ At(t, j - 1) \notin WordChars
       /\ At(t, j + Len(name)) \notin WordChars)
      => \E b \in CaseBlocks : \E i \in (j - Len(b) + 1)..j : StartsAt(t, i, b)

C10_NeverFails ==
  (request.liquidAnalysis.exists /\ descr.status \in {"ok", "threw"}) =>
    LET names == request.liquidAnalysis.globals
        r == findLiquidVariableValues(names, tmpl)
    IN  /\ ~r.threw
        /\ \A i \in 1..Len(names) :
             r.values[names[i]] = findLiquidVariableValues(<<names[i]>>, tmpl).values[names[i]]
\* C11 (render error): when the rendering raises an error on an activation of
\* the button, diffAndUpdate is not called, the container is exactly as it was
\* before the activation, and a notice was shown to the user.
C11_RenderErrorCaught ==
  last.threw =>
    /\ ~last.called
    /\ last.log = <<>>
    /\ live = last.before
    /\ last.notice
    /\ notices > 0

\* a state after an activation whose rendering raised, on a container with children
C11_Witness == last.threw /\ Len(live.kids) > 0 /\ notices = 1

Eligible(container) ==
  {n.nid : n \in {m \in Subtrees(container) :
                    IsElement(m) /\ (m.nid = container.nid \/ Liquidized \in m.cls)}}

\* C13 (update gate): a call updates only the container it was given and
\* marked elements, and an element that is neither, as long as it stands in
\* the tree, stands there with all its descendants unchanged.
C13_UpdateGate ==
  last.called =>
    /\ \A id \in UpdatedIds(last.log) :
         id \in Eligible(last.before) \/ NodeOf(last.before, id) = {}
    /\ \A n \in Subtrees(last.before) :
         (IsElement(n) /\ n.nid \notin Eligible(last.before))
           => \A m \in NodeOf(live, n.nid) : m = n

\* the elements of a tree, its root aside, that do not carry the mark
UnmarkedInside(tree) ==
  {n \in Subtrees(tree) : IsElement(n) /\ n.nid # tree.nid /\ Liquidized \notin n.cls}

\* C14 (add/discard gate): a call removes no unmarked element from the live
\* tree and inserts no unmarked element into it; only text nodes and marked
\* elements come and go.
C14_AddDiscardGate ==
  last.called =>
    /\ \A n \in UnmarkedInside(last.before) : NodeOf(live, n.nid) # {}
    /\ \A n \in UnmarkedInside(live) : NodeOf(last.before, n.nid) # {}

\* the literal grammar as C15 states it, a decimal number taken with its sign,
\* fraction and exponent
C15_Grammar(raw) ==
  LET t == Trim(raw)
      n == Len(t)
  IN  IF t \in {"true", "false"} THEN BoolVal(t)
      ELSE IF t \in {"nil", "null"} THEN NullVal
      ELSE IF n >= 2 /\ At(t, 1) = At(t, n) /\ At(t, 1) \in {"'", "\""}
        THEN StrVal(SubSeq(t, 2, n - 1))
      ELSE IF IsDecimal(t) THEN NumVal(DecimalValue(t))
      ELSE StrVal(t)

\* C15 (literal grammar): parseLiquidValue gives a boolean for true/false, null
\* for nil/null, the text between the quotes for a text wrapped in one pair of
\* quotes, the number for a decimal number, and the trimmed text as a string
\* for anything else.
C15_LiteralGrammar == parsed # NotParsed => parsed = C15_Grammar(token)

\* what the three detectors find for a name, match after match, before any
\* deduplication
Evidence(name, t) ==
  LET tags == TagStarts(t)
  IN  ParseAll(ComparisonMatches(t, ComparisonStarts(t, name), 1, name))
        \o (IF BooleanTest(t, tags, name) THEN <<BoolVal("true"), BoolVal("false")>>
            ELSE <<>>)
        \o ParseAll(CaseOperands(CaseMatches(t, tags, 1, name)))

\* the first position of a value in a list, 0 when it is not in it
FirstIndex(list, x) == First({i \in 1..Len(list) : list[i] = x})

\* C16 (deduplication): the possible values returned for a name hold every
\* value the detectors found, two values of different kind or different value
\* as two entries, each value once, in the order of the first finds.
C16_Deduplicated ==
  \A r \in returned : \A name \in DOMAIN r.out.values :
    \A found \in {Evidence(name, r.liquidTemplate)} :
    LET opts == r.out.values[name]
    IN  /\ \A i, j \in 1..Len(opts) : opts[i] = opts[j] => i = j
        /\ {opts[i] : i \in 1..Len(opts)} = {found[i] : i \in 1..Len(found)}
        /\ \A i, j \in 1..Len(opts) :
             i < j => FirstIndex(found, opts[i]) < FirstIndex(found, opts[j])

\* a template was scanned in which v meets the number 1 and the string '1', and
\* some value more than once
C16_Witness ==
  \E r \in returned :
    /\ "v" \in DOMAIN r.out.values
    /\ \E i, j \in 1..Len(r.out.values["v"]) :
         r.out.values["v"][i] = NumVal("1") /\ r.out.values["v"][j] = StrVal("1")
    /\ Len(Evidence("v", r.liquidTemplate)) > Len(r.out.values["v"])

\* the name stands at j as an identifier of its own, not as a part of a
\* longer one (a prefix, a suffix, a field after a dot, a part of a
\* hyphenated name)
OwnUse(t, j, name) ==
  /\ StartsAt(t, j, name)
  /\ At(t, j - 1) \notin IdentifierChars
  /\ At(t, j + Len(name)) \notin IdentifierChars

\* C17: when v stands in the template only inside longer identifiers, no
\* detector finds a possible value for v and its kind is the one it has
\* without any evidence.
C17_NoSpuriousEvidence ==
  \A d \in DescriptorsOf("v") :
    (~\E j \in 1..Len(tmpl) : OwnUse(tmpl, j, "v"))
      => /\ d.possibleOptions = <<>>
         /\ d.type = TypeOfVariable(d.currentValue, <<>>)

\* the template with every trim marker taken out of its tag delimiters
RECURSIVE WithoutTrimMarkers(_)
WithoutTrimMarkers(t) ==
  LET j == First({k \in 1..Len(t) : StartsAt(t, k, "{%-") \/ StartsAt(t, k, "-%}")})
  IN  IF j = 0 THEN t
      ELSE IF StartsAt(t, j, "{%-")
        THEN SubSeq(t, 1, j + 1) \o WithoutTrimMarkers(SubSeq(t, j + 3, Len(t)))
      ELSE SubSeq(t, 1, j - 1) \o WithoutTrimMarkers(SubSeq(t, j + 1, Len(t)))

\* C18 (trim markers): the descriptor of v has the kind and the possible values
\* it has for the same template written without trim markers.
C18_TrimMarkersNeutral ==
  \A d \in DescriptorsOf("v") :
    \A plain \in {ValuesOf("v", WithoutTrimMarkers(tmpl))} :
      /\ d.possibleOptions = plain
      /\ d.type = TypeOfVariable(d.currentValue, plain)

ComparedWithLiteral(t, name) ==
  \E j \in 1..Len(t) :
    /\ OwnUse(t, j, name)
    /\ \E m \in {ComparisonAt(t, j, name)} :
         m[2] # 0 /\ parseLiquidValue(SubSeq(t, m[1], m[2] - 1)).k \in {"string", "number"}

\* C20 (precedence): when v is used alone as the condition of a tag and is
\* compared with a string or number literal elsewhere in the template, in
\* either order, the descriptor of v has kind boolean (stated for a tag
\* without trim markers and a variable without a stored value, where nothing
\* but the two uses decides the kind).
C20_BooleanOverLiteral ==
  \A d \in DescriptorsOf("v") :
    ( /\ d.currentValue = Undefined
      /\ \E j \in 1..Len(tmpl) : StartsAt(tmpl, j, "{% if v %}")
      /\ ComparedWithLiteral(tmpl, "v") )
      => d.type = "boolean"

\* the request lets analyze get as far as building the descriptors
ReachesDescriptors(r) ==
  /\ r.frontmatter.exists
  /\ r.frontmatter.liquidize
  /\ r.liquidAnalysis.exists
  /\ Len(r.liquidAnalysis.globals) > 0

\* C25 (result pair): analyze returns either an error message and no variable
\* list (frontmatter missing, liquidize not set, template analysis missing, no
\* variable referenced) or, in every other case, a variable list with one
\* descriptor per referenced name and no error; it returns in every case.
C25_ResultPair ==
  descr # NoResult =>
    IF ReachesDescriptors(request)
    THEN /\ descr.status = "ok"
         /\ descr.error = ""
         /\ \A keys \in {Keys(request.liquidAnalysis.globals, {})} :
              /\ Len(descr.variables) = Len(keys)
              /\ \A i \in 1..Len(keys) : descr.variables[i].key = keys[i]
    ELSE /\ descr.status = "error"
         /\ descr.error # ""
         /\ descr.variables = <<>>

\* C22 (one button): after any sequence of post processor runs on the
\* sections of one container the container holds at most one element of class
\* liquid-render-button, and a run without the liquidize flag leaves its
\* section as the renderer produced it and adds no button.
C22_OneButton ==
  /\ Cardinality(Buttons(live)) <= 1
  /\ (run.ran /\ ~run.liquidize) =>
       /\ Content(run.fresh) = run.section
       /\ Cardinality(Buttons(live)) = run.buttons

\* a further section was processed with the flag set when the container held
\* the button already
C22_Witness ==
  /\ posts >= 2
  /\ run.ran /\ run.liquidize /\ run.buttons = 1
  /\ Cardinality(Buttons(live)) = 1
  /\ Liquidized \in run.fresh.cls

\* C24 (one leaf): after any interleaving of activateView calls the workspace
\* holds at most one leaf of the frontmatter fast editor.
C24_AtMostOneLeaf ==
  Cardinality(getLeavesOfType(workspace, VIEW_TYPE_FRONTMATTER_FAST_EDITOR)) <= 1

\* C23 (latest request wins): when no updateView call is in flight any more,
\* the editor shows the file of the most recent updateView request.
C23_LatestShown ==
  (editor.views = {} /\ editor.latest # "") => editor.shown.file = editor.latest

\* C21 (write then refresh): the timer every write sets runs out and calls
\* updateView, and so analyze, for the written file; and from some moment on
\* the value shown for a file is the value last written to it.
C21_WriteRefreshes ==
  /\ \A t \in [file : {"A.md", "B.md"}, write : 1..MaxWrites] :
       (t \in editor.timers) ~> (t \notin editor.timers /\ editor.latest = t.file)
  /\ <>[](editor.shown.file # "" =>
            editor.shown.value = editor.written[editor.shown.file])

\* C26 (export): an invocation writes the file only when the document has
\* frontmatter with a truthy liquidize flag and its rendering succeeded; an
\* invocation on an active document that ended with one of these missing has
\* written no file and has shown a notice.
C26_ExportGuarded ==
  \A x \in exporter.runs :
    LET good == /\ x.doc.read
                /\ x.doc.frontmatter = "liquidize"
                /\ x.doc.render = "rendered"
    IN  /\ x.wrote => (x.doc.active /\ ~x.checking /\ good)
        /\ (x.pc = "done" /\ x.doc.active /\ ~x.checking /\ ~good) =>
             (~x.wrote /\ Len(x.notices) > 0)

\* one invocation met a document without the flag and ended with its two
\* notices and no file, another wrote the file
C26_Witness ==
  /\ \E x \in exporter.runs :
       /\ x.pc = "done" /\ x.doc.active /\ x.doc.read /\ x.doc.frontmatter = "no flag"
       /\ ~x.wrote /\ Len(x.notices) = 2
  /\ \E x \in exporter.runs : x.wrote /\ x.doc.frontmatter = "liquidize"

====
